---- MODULE Spec2Model ----
(***************************************************************************)
(* Model of fast_ml/eda.py: the IQR outlier report                         *)
(* (numerical_check_outliers), the outlier step and the transformations    *)
(* of numerical_variable_detail, the rare-category collapsing of           *)
(* categorical_plots and categorical_plots_with_rare_and_target, the       *)
(* branches on the model argument of the plots with target, and the        *)
(* frequent category of categorical_plots_for_miss_and_freq.               *)
(*                                                                         *)
(* Numbers.  A numeric cell is a float that is either NaN (pandas' missing *)
(* marker) or an integer value.  Quartiles and bounds are floats held      *)
(* exactly as integers counting eighths: with integer cells, the linear    *)
(* interpolation at 25/75 yields multiples of 1/4, and a tolerance that is *)
(* a multiple of 1/2 yields bounds that are multiples of 1/8, all of which *)
(* binary floating point represents exactly.  A tolerance is held as       *)
(* tol2 = 2 * tol.                                                         *)
(***************************************************************************)
EXTENDS Integers, Sequences, FiniteSets, TLC

\* Largest number of rows of an enumerated numeric dataframe.
MaxRows == 3

\* Largest number of rows of an enumerated categorical dataframe.
MaxCatRows == 4

\* Largest number of rows of a categorical dataframe on which all the
\* functions are called.
MaxAllRows == 2

\* Largest number of rows that follow the leading missing entries of a
\* dataframe given to categorical_plots_for_miss_and_freq.
MaxMissRows == 4

\* Values of the present cells of an enumerated numeric column.
Values == {0, 1}

\* Tolerances of the enumerated calls, as tol2 = 2 * tol: -1.5, 0, 0.5, 1.5.
Tols2 == {-3, 0, 1, 3}

\* Lists of variables have 1..2 entries (a column may be named twice).
VarLists(names) == {<<a>> : a \in names} \cup {<<a, b>> : a \in names, b \in names}

\* The variables argument of numerical_check_outliers: None or a list.
VariablesArgs(names) ==
    {[none |-> TRUE, list |-> <<>>]} \cup {[none |-> FALSE, list |-> l] : l \in VarLists(names)}

----------------------------------------------------------------------------
\* Floats

NaN == [nan |-> TRUE, v |-> 0]
F(v) == [nan |-> FALSE, v |-> v]
FSub(a, b) == IF a.nan \/ b.nan THEN NaN ELSE F(a.v - b.v)
FAdd(a, b) == IF a.nan \/ b.nan THEN NaN ELSE F(a.v + b.v)
\* tol * a, for tol = tol2 / 2 and a an even number of eighths
FMulTol(tol2, a) == IF a.nan THEN NaN ELSE F((tol2 * a.v) \div 2)
\* every comparison with NaN is False
FLess(a, b) == ~a.nan /\ ~b.nan /\ a.v < b.v
FGreater(a, b) == ~a.nan /\ ~b.nan /\ a.v > b.v
\* a cell value in eighths
Eighths(c) == IF c.nan THEN NaN ELSE F(8 * c.v)

----------------------------------------------------------------------------
\* Dataframes

NumCells == {NaN} \cup {F(v) : v \in Values}

NumFrame(cx, cy) ==
    [columns |-> <<"x", "y">>,
     dtypes |-> [x |-> "float64", y |-> "float64"],
     data |-> [x |-> cx, y |-> cy]]

\* The column of the spec's outlier scenario, beside a constant column.
ScenarioColumn == [i \in 1..10 |-> IF i = 10 THEN F(1000) ELSE F(i)]
ScenarioFrame == NumFrame(ScenarioColumn, [i \in 1..10 |-> F(5)])

NumFrames ==
    UNION {{NumFrame(cx, cy) : cx \in [1..n -> NumCells], cy \in [1..n -> NumCells]} :
           n \in 1..MaxRows}
    \cup {ScenarioFrame}

\* A dataframe of one numeric column, whose cells may also be negative.
DetailCells == NumCells \cup {F(-1)}

DetailFrame(cx) ==
    [columns |-> <<"x">>, dtypes |-> [x |-> "float64"], data |-> [x |-> cx]]

DetailFrames ==
    UNION {{DetailFrame(cx) : cx \in [1..n -> DetailCells]} : n \in 1..MaxRows}

\* Object columns hold category labels; a missing entry is NA.  Numeric
\* categories, which np.where would turn into strings, are not modelled.
NA == "<NA>"
Categories == {"A", "B", "Rare"}
CatCells == {NA} \cup Categories

\* A categorical column beside a numeric target column.
CatFrame(cc) ==
    [columns |-> <<"c", "t">>,
     dtypes |-> [c |-> "object", t |-> "float64"],
     data |-> [c |-> cc, t |-> [i \in DOMAIN cc |-> F(i % 2)]]]

\* The column of the spec's rare-category scenario.
CatScenarioFrame == CatFrame(<<"A", "A", "A", "A", "B", "C">>)

CatFrames ==
    UNION {{CatFrame(cc) : cc \in [1..n -> CatCells]} : n \in 1..MaxCatRows}
    \cup {CatScenarioFrame}

\* The categorical dataframes of at most MaxAllRows rows.
SmallCatFrames ==
    UNION {{CatFrame(cc) : cc \in [1..n -> CatCells]} : n \in 1..MaxAllRows}

\* if n_miss > 10
MissLimit == 10

\* Categorical dataframes for categorical_plots_for_miss_and_freq: no missing
\* entry, MissLimit of them or one more, before at most MaxMissRows entries
\* that may be missing too.
MissingRows(n) == [i \in 1..n |-> NA]

MissScenarioColumn == <<"1", "1", "2", "2", "3">>

MissFrames ==
    UNION {{CatFrame(MissingRows(n) \o cc) : cc \in [1..m -> CatCells],
                                             n \in {0, MissLimit, MissLimit + 1}} :
           m \in 1..MaxMissRows}
    \cup {CatFrame(MissScenarioColumn), CatFrame(MissingRows(MissLimit + 1)),
          CatFrame(MissingRows(MissLimit + 1) \o MissScenarioColumn)}

len(frame) == Len(frame.data[frame.columns[1]])

\* df.select_dtypes(exclude = ['object']).columns
select_dtypes_exclude_object(frame) ==
    SelectSeq(frame.columns, LAMBDA c : frame.dtypes[c] # "object")

\* df.loc[df[var].notnull(), var]
notnull_values(frame, var) == SelectSeq(frame.data[var], LAMBDA c : ~c.nan)

----------------------------------------------------------------------------
\* numpy

RECURSIVE Insert(_, _)
Insert(c, s) ==
    IF s = <<>> THEN <<c>>
    ELSE IF c.v <= Head(s).v THEN <<c>> \o s
    ELSE <<Head(s)>> \o Insert(c, Tail(s))

RECURSIVE SortAsc(_)
SortAsc(s) == IF s = <<>> THEN <<>> ELSE Insert(Head(s), SortAsc(Tail(s)))

\* The 'lower' method: no interpolation.
np_percentile_lower(s, q) ==
    IF \E i \in DOMAIN s : s[i].nan THEN NaN
    ELSE IF s = <<>> THEN NaN
    ELSE F(8 * SortAsc(s)[(((Len(s) - 1) * q) \div 100) + 1].v)

\* np.percentile(s, q), q in {25, 75}, default linear interpolation, in eighths.
\* A NaN among the values makes the result NaN.  For an empty input this is
\* the value of the builds that return NaN; the builds that raise are the
\* action's other outcome.
np_percentile(s, q) ==
    IF \E i \in DOMAIN s : s[i].nan THEN NaN
    ELSE IF s = <<>> THEN NaN
    ELSE LET a == SortAsc(s)
             n == Len(a)
             pos == (n - 1) * q
             lo == (pos \div 100) + 1
             hi == IF lo + 1 <= n THEN lo + 1 ELSE n
             frac8 == ((pos % 100) * 8) \div 100
         IN F(8 * a[lo].v + frac8 * (a[hi].v - a[lo].v))

RECURSIVE np_sum(_)
np_sum(mask) == IF mask = <<>> THEN 0
                ELSE (IF Head(mask) THEN 1 ELSE 0) + np_sum(Tail(mask))

----------------------------------------------------------------------------
\* State

VARIABLES
    df,            \* the caller's dataframe
    fn,            \* the function called last ("" before the first call)
    args,          \* its arguments
    raised,        \* the exception that ended the call, type "none" if it returned
    outlier_dict,  \* numerical_check_outliers: outlier_dict, one entry per column,
                   \* with the quartiles and bounds of the column's iteration
    outlier_df,    \* numerical_check_outliers: the dataframe returned
    detail,        \* numerical_variable_detail: the values of its outlier step
    eda_df,        \* categorical functions: the columns of the working copy eda_df
                   \* when the call ends
    rare_passes,   \* categorical_plots_with_rare_and_target: per iteration, the
                   \* collapsed column of rare_v1_df and of rare_v2_df, and what
                   \* the model argument selected for each of the three plots
    transforms,    \* numerical_variable_detail: the transformations attempted, in
                   \* order, each with the series it was given and whether it failed
    target_plots,  \* categorical_plots_with_target: per iteration, what the model
                   \* argument selected
    frequent       \* categorical_plots_for_miss_and_freq: per variable processed,
                   \* its number of missing values and its frequent category

vars == <<df, fn, args, raised, outlier_dict, outlier_df, detail, eda_df, rare_passes,
          transforms, target_plots, frequent>>

NoException == [type |-> "none", var |-> ""]
NoDetail == [reached |-> FALSE]

----------------------------------------------------------------------------
\* numerical_check_outliers

lower_bound_minus_typo(quartile_1, iqr, tol2) == FAdd(quartile_1, FMulTol(tol2, iqr))
lower_bound_of(quartile_1, iqr, tol2) == FSub(quartile_1, FMulTol(tol2, iqr))

upper_bound_minus_typo(quartile_3, iqr, tol2) == FSub(quartile_3, FMulTol(tol2, iqr))
upper_bound_of(quartile_3, iqr, tol2) == FAdd(quartile_3, FMulTol(tol2, iqr))

\* np.sum(s <= bound)
count_less_or_equal(s, bound) ==
    np_sum([i \in DOMAIN s |-> ~bound.nan /\ Eighths(s[i]).v <= bound.v])
\* np.sum(s < bound)
count_less(s, bound) == np_sum([i \in DOMAIN s |-> FLess(Eighths(s[i]), bound)])

\* np.sum(s >= bound)
count_greater_or_equal(s, bound) ==
    np_sum([i \in DOMAIN s |-> ~bound.nan /\ Eighths(s[i]).v >= bound.v])
\* np.sum(s > bound)
count_greater(s, bound) == np_sum([i \in DOMAIN s |-> FGreater(Eighths(s[i]), bound)])

\* One iteration of the loop over the variables.
outlier_entry(frame, var, tol2) ==
    LET s == notnull_values(frame, var)
        quartile_1 == np_percentile(s, 25)
        quartile_3 == np_percentile(s, 75)
        iqr == FSub(quartile_3, quartile_1)
        lower_bound == lower_bound_of(quartile_1, iqr, tol2)
        upper_bound == upper_bound_of(quartile_3, iqr, tol2)
        lower_bound_outlier == count_less(s, lower_bound)
        upper_bound_outlier == count_greater(s, upper_bound)
    IN [var |-> var,
        quartile_1 |-> quartile_1, quartile_3 |-> quartile_3, iqr |-> iqr,
        lower_bound |-> lower_bound, upper_bound |-> upper_bound,
        lower_bound_outliers |-> lower_bound_outlier,
        upper_bound_outliers |-> upper_bound_outlier,
        total_outliers |-> lower_bound_outlier + upper_bound_outlier]

\* outlier_dict[var] = entry: a dict keeps the position of a key's first insertion.
dict_set(dict, entry) ==
    IF \E i \in DOMAIN dict : dict[i].var = entry.var
    THEN [i \in DOMAIN dict |-> IF dict[i].var = entry.var THEN entry ELSE dict[i]]
    ELSE Append(dict, entry)

\* The loop.  np.percentile of a column without a present value returns NaN or
\* raises, depending on the numpy build; an exception ends the call.
RECURSIVE outlier_loop(_, _, _, _, _)
outlier_loop(frame, variables, tol2, build, dict) ==
    IF variables = <<>> THEN [dict |-> dict, raised |-> NoException]
    ELSE IF build = "raise" /\ notnull_values(frame, Head(variables)) = <<>>
    THEN [dict |-> dict, raised |-> [type |-> "IndexError", var |-> ""]]
    ELSE outlier_loop(frame, Tail(variables), tol2, build,
                      dict_set(dict, outlier_entry(frame, Head(variables), tol2)))

\* pd.DataFrame(data = outlier_dict).transpose(): one row per key, in key order
transpose(dict) ==
    [i \in DOMAIN dict |->
        [var |-> dict[i].var,
         lower_bound_outliers |-> dict[i].lower_bound_outliers,
         upper_bound_outliers |-> dict[i].upper_bound_outliers,
         total_outliers |-> dict[i].total_outliers]]

Permutations_of(n) ==
    {p \in [1..n -> 1..n] : \A i, j \in 1..n : i # j => p[i] # p[j]}

sort_values_ascending(rows) ==
    {[i \in DOMAIN rows |-> rows[p[i]]] : p \in
        {q \in Permutations_of(Len(rows)) :
            \A i, j \in 1..Len(rows) :
                i < j => rows[q[i]].total_outliers <= rows[q[j]].total_outliers}}

\* outlier_df.sort_values(by = 'total_outliers', ascending = False): the default
\* kind, 'quicksort', is not a stable sort, so rows with equal keys come out in
\* an order the build decides.  The set of the orders it can return.
sort_values(rows) ==
    {[i \in DOMAIN rows |-> rows[p[i]]] : p \in
        {q \in Permutations_of(Len(rows)) :
            \A i, j \in 1..Len(rows) :
                i < j => rows[q[i]].total_outliers >= rows[q[j]].total_outliers}}

\* Percentage of the column's present values.
perc_outliers_of_present(rows, frame) ==
    [i \in DOMAIN rows |->
        [var |-> rows[i].var,
         lower_bound_outliers |-> rows[i].lower_bound_outliers,
         upper_bound_outliers |-> rows[i].upper_bound_outliers,
         total_outliers |-> rows[i].total_outliers,
         perc_outliers |-> [num |-> 100 * rows[i].total_outliers,
                            den |-> Len(notnull_values(frame, rows[i].var))]]]

\* outlier_df['perc_outliers'] = (outlier_df['total_outliers'] / len(df)).mul(100),
\* held as the fraction num / den
perc_outliers(rows, frame) ==
    [i \in DOMAIN rows |->
        [var |-> rows[i].var,
         lower_bound_outliers |-> rows[i].lower_bound_outliers,
         upper_bound_outliers |-> rows[i].upper_bound_outliers,
         total_outliers |-> rows[i].total_outliers,
         perc_outliers |-> [num |-> 100 * rows[i].total_outliers,
                            den |-> len(frame)]]]

\* The variables analysed: the given list or, for variables = None, every
\* column that is not of object dtype.
analysed(frame, variables) ==
    IF variables.none THEN select_dtypes_exclude_object(frame) ELSE variables.list

numerical_check_outliers(variables, tol2, build) ==
    LET r == outlier_loop(df, analysed(df, variables), tol2, build, <<>>)
    IN /\ fn' = "numerical_check_outliers"
       /\ args' = [variables |-> variables, tol2 |-> tol2]
       /\ outlier_dict' = r.dict
       /\ raised' = r.raised
       /\ IF r.raised.type # "none"
          THEN outlier_df' = <<>>
          ELSE \E sorted \in sort_values(transpose(r.dict)) :
                   outlier_df' = perc_outliers(sorted, df)
       /\ UNCHANGED <<df, detail, eda_df, rare_passes, transforms, target_plots, frequent>>

----------------------------------------------------------------------------
\* Working copies

\* eda_df = df: no copy, the working frame is the caller's.
copy_alias(frame) == [data |-> frame.data, shares |-> TRUE]

\* df.copy(deep = True): the working frame has columns of its own.
copy_deep(frame) == [data |-> frame.data, shares |-> FALSE]

\* The caller's frame once the working frame's columns hold `data`.
caller_frame(frame, work, data) ==
    IF work.shares THEN [frame EXCEPT !.data = data] ELSE frame

----------------------------------------------------------------------------
\* numerical_variable_detail: the outlier step and the transformations.  The
\* plots between them are not modelled.

\* s.nunique(): the number of distinct present values
nunique(s) == Cardinality({c.v : c \in {s[i] : i \in {j \in DOMAIN s : ~s[j].nan}}})

Transformations == <<"log", "exp", "square", "sqrt", "boxcox", "yeojohnson">>

\* The sets of transformations in which a call outside this file raises:
\* normality_diagnostic of fast_ml.utilities in each of them, and scipy in
\* the last two.
Failings == SUBSET (1..Len(Transformations))

\* np.where(s == 0, 1, s) whose result is not bound to s
np_where_zero_discarded(s) == s

\* s = np.where(s == 0, 1, s); NaN == 0 is False
np_where_zero(s) == [i \in DOMAIN s |-> IF ~s[i].nan /\ s[i].v = 0 THEN F(1) ELSE s[i]]

\* stats.boxcox(s) raises ValueError unless every value given is positive;
\* NaN <= 0 is False.
boxcox_raises(s) == \E i \in DOMAIN s : ~s[i].nan /\ s[i].v <= 0

\* A try block without a handler
except_none(k) == FALSE

\* except: the bare clause of block k catches every exception
except_catches(k) == TRUE

\* The try block of transformation k, entered with the series s: the series
\* the transformation is given, which is the one s is bound to afterwards,
\* and whether an exception is raised in the block.  On a numeric column the
\* replacement of zeros itself does not raise.
try_block(k, s, failing) ==
    LET given == IF k = 1 THEN np_where_zero(s) ELSE s
    IN [name |-> Transformations[k],
        input |-> given,
        failed |-> k \in failing \/ (k = 5 /\ boxcox_raises(given))]

RECURSIVE transform_loop(_, _, _, _)
transform_loop(s, k, failing, done) ==
    IF k > Len(Transformations) THEN [transforms |-> done, raised |-> NoException]
    ELSE LET b == try_block(k, s, failing)
         IN IF b.failed /\ ~except_catches(k)
            THEN [transforms |-> Append(done, b),
                  raised |-> [type |-> "Exception", var |-> ""]]
            ELSE transform_loop(b.input, k + 1, failing, Append(done, b))

numerical_variable_detail(variable, threshold, failing) ==
    LET eda == copy_deep(df)
        s == eda.data[variable]
        t == transform_loop(s, 1, failing, <<>>)
        quartile_1 == np_percentile(s, 25)
        quartile_3 == np_percentile(s, 75)
        IQR == FSub(quartile_3, quartile_1)
        upper_boundary == FAdd(quartile_3, FMulTol(3, IQR))
        lower_boundary == FSub(quartile_1, FMulTol(3, IQR))
    IN /\ fn' = "numerical_variable_detail"
       /\ args' = [variable |-> variable, threshold |-> threshold]
       /\ IF nunique(s) < threshold
          THEN /\ raised' = [type |-> "SystemExit", var |-> ""]
               /\ detail' = NoDetail
               /\ transforms' = <<>>
          ELSE /\ raised' = t.raised
               /\ transforms' = t.transforms
               /\ detail' = [reached |-> TRUE,
                             quartile_1 |-> quartile_1, quartile_3 |-> quartile_3,
                             IQR |-> IQR,
                             upper_boundary |-> upper_boundary,
                             lower_boundary |-> lower_boundary,
                             right_end_outliers |-> count_greater(s, upper_boundary),
                             left_end_outliers |-> count_less(s, lower_boundary)]
       /\ df' = caller_frame(df, eda, eda.data)
       /\ UNCHANGED <<outlier_dict, outlier_df, eda_df, rare_passes, target_plots, frequent>>


----------------------------------------------------------------------------
\* The model argument

Models == {"clf", "classification", "reg", "regression"}

\* The characters of a string.
Chars(str) ==
    CASE str = "clf" -> <<"c", "l", "f">>
      [] str = "classification" ->
             <<"c", "l", "a", "s", "s", "i", "f", "i", "c", "a", "t", "i", "o", "n">>
      [] str = "reg" -> <<"r", "e", "g">>
      [] str = "regression" -> <<"r", "e", "g", "r", "e", "s", "s", "i", "o", "n">>

\* a in b, for strings: a occurs in b
IsSubstring(a, b) ==
    \E k \in 0..(Len(b) - Len(a)) : \A i \in 1..Len(a) : b[k + i] = a[i]

\* x or y, for strings: x unless it is empty
python_or(x, y) == IF x # "" THEN x ELSE y

\* model in (x, y): membership in the tuple
model_in_tuple(model, x, y) == model \in {x, y}

\* model in (x or y): the parentheses hold one string, x, and the test is
\* whether model occurs in it
model_in_or(model, x, y) == IsSubstring(Chars(model), Chars(python_or(x, y)))

\* if model in ('clf' or 'classification'): event-rate label
\* elif model in ('reg' or 'regression'): mean-target label
ylabel_of(model) ==
    IF model_in_or(model, "clf", "classification") THEN "Perc of Events within Category"
    ELSE IF model_in_or(model, "reg", "regression") THEN "Mean Target Value"
    ELSE ""

\* What the model argument selects for one plot of mean target per category:
\* whether the mean target is multiplied by 100, and the axis label.
plot_of(model) ==
    [scaled |-> model_in_or(model, "clf", "classification"), ylabel |-> ylabel_of(model)]

----------------------------------------------------------------------------
\* Rare-category collapsing

\* eda_df[var].fillna('Missing')
fillna(column, value) ==
    [i \in DOMAIN column |-> IF column[i] = NA THEN value ELSE column[i]]

\* column.value_counts(): the count of every present value (NA is dropped)
value_counts(column) ==
    [ix \in {column[i] : i \in DOMAIN column} \ {NA} |->
        Cardinality({i \in DOMAIN column : column[i] = ix})]

\* Keeps a label whose share reaches the threshold.
non_rare_label_inclusive(column, length_df, rare_tol) ==
    {ix \in DOMAIN value_counts(column) :
        100 * value_counts(column)[ix] >= rare_tol * length_df}

\* s = value_counts / length_df; [ix for ix, perc in s.items() if perc > rare_tol/100].
\* count / length_df > rare_tol / 100 is decided as 100 * count > rare_tol * length_df:
\* with integers this small the two float quotients compare as the fractions do.
non_rare_label(column, length_df, rare_tol) ==
    {ix \in DOMAIN value_counts(column) :
        100 * value_counts(column)[ix] > rare_tol * length_df}

\* np.where(column.isin(labels), 'Rare', column): the branches exchanged
np_where_notin(column, labels) ==
    [i \in DOMAIN column |-> IF column[i] \in labels THEN "Rare" ELSE column[i]]

\* np.where(column.isin(labels), column, 'Rare')
np_where_isin(column, labels) ==
    [i \in DOMAIN column |-> IF column[i] \in labels THEN column[i] ELSE "Rare"]

\* One iteration of categorical_plots on the working copy.
plots_iteration(data, var, length_df, add_missing, add_rare, rare_tol) ==
    LET filled == IF add_missing THEN fillna(data[var], "Missing") ELSE data[var]
        collapsed == IF add_rare
                     THEN np_where_isin(filled, non_rare_label(filled, length_df, rare_tol))
                     ELSE filled
    IN [data EXCEPT ![var] = collapsed]

RECURSIVE plots_loop(_, _, _, _, _, _)
plots_loop(data, variables, length_df, add_missing, add_rare, rare_tol) ==
    IF variables = <<>> THEN data
    ELSE plots_loop(plots_iteration(data, Head(variables), length_df,
                                    add_missing, add_rare, rare_tol),
                    Tail(variables), length_df, add_missing, add_rare, rare_tol)

categorical_plots(variables, add_missing, add_rare, rare_tol) ==
    LET work == copy_deep(df)
        data == plots_loop(work.data, variables, len(df), add_missing, add_rare, rare_tol)
    IN /\ fn' = "categorical_plots"
       /\ args' = [variables |-> variables, add_missing |-> add_missing,
                   add_rare |-> add_rare, rare_tol |-> rare_tol]
       /\ raised' = NoException
       /\ eda_df' = data
       /\ df' = caller_frame(df, work, data)
       /\ UNCHANGED <<outlier_dict, outlier_df, detail, rare_passes, transforms,
                      target_plots, frequent>>

\* categorical_plots_with_target: the relabelling of missing values, and what
\* the model argument selects.  The mean target per category comes from
\* fast_ml.utilities and is not part of this file.
RECURSIVE target_loop(_, _, _, _, _)
target_loop(data, variables, model, add_missing, plots) ==
    IF variables = <<>> THEN [data |-> data, plots |-> plots]
    ELSE LET var == Head(variables)
             filled == IF add_missing THEN fillna(data[var], "Missing") ELSE data[var]
         IN target_loop([data EXCEPT ![var] = filled], Tail(variables), model, add_missing,
                        Append(plots,
                               [var |-> var,
                                scaled |-> model_in_or(model, "clf", "classification"),
                                event_rate_graph |->
                                    model_in_tuple(model, "clf", "classification"),
                                ylabel |-> ylabel_of(model)]))

categorical_plots_with_target(variables, model, add_missing) ==
    LET work == copy_deep(df)
        r == target_loop(work.data, variables, model, add_missing, <<>>)
    IN /\ fn' = "categorical_plots_with_target"
       /\ args' = [variables |-> variables, model |-> model, add_missing |-> add_missing]
       /\ raised' = NoException
       /\ eda_df' = r.data
       /\ target_plots' = r.plots
       /\ df' = caller_frame(df, work, r.data)
       /\ UNCHANGED <<outlier_dict, outlier_df, detail, rare_passes, transforms, frequent>>

\* A rare pass: skipped (no column) when the threshold is 0, 'if rare_v1:'.
rare_pass(column, length_df, rare_v) ==
    IF rare_v = 0 THEN <<>>
    ELSE np_where_isin(column, non_rare_label(column, length_df, rare_v))

\* The rare passes work on rare_v1_df = eda_df.copy()[[var, target]], a frame
\* of their own, so eda_df keeps the labels of the as-is plot.
RECURSIVE rare_loop(_, _, _, _, _, _, _, _)
rare_loop(data, variables, length_df, model, add_missing, rare_v1, rare_v2, passes) ==
    IF variables = <<>> THEN [data |-> data, passes |-> passes]
    ELSE LET var == Head(variables)
             filled == IF add_missing THEN fillna(data[var], "Missing") ELSE data[var]
         IN rare_loop([data EXCEPT ![var] = filled], Tail(variables), length_df, model,
                      add_missing, rare_v1, rare_v2,
                      Append(passes, [var |-> var,
                                      rare_v1_df |-> rare_pass(filled, length_df, rare_v1),
                                      rare_v2_df |-> rare_pass(filled, length_df, rare_v2),
                                      as_is_plot |-> plot_of(model),
                                      rare_v1_plot |-> IF rare_v1 = 0 THEN <<>>
                                                       ELSE plot_of(model),
                                      rare_v2_plot |-> IF rare_v2 = 0 THEN <<>>
                                                       ELSE plot_of(model)]))

categorical_plots_with_rare_and_target(variables, model, add_missing, rare_v1, rare_v2) ==
    LET work == copy_deep(df)
        r == rare_loop(work.data, variables, len(df), model, add_missing,
                       rare_v1, rare_v2, <<>>)
    IN /\ fn' = "categorical_plots_with_rare_and_target"
       /\ args' = [variables |-> variables, model |-> model, add_missing |-> add_missing,
                   rare_v1 |-> rare_v1, rare_v2 |-> rare_v2]
       /\ raised' = NoException
       /\ eda_df' = r.data
       /\ rare_passes' = r.passes
       /\ df' = caller_frame(df, work, r.data)
       /\ UNCHANGED <<outlier_dict, outlier_df, detail, transforms, target_plots, frequent>>

----------------------------------------------------------------------------
\* categorical_plots_for_miss_and_freq: the frequent category.  The KDE plots
\* drawn from it are not modelled.

\* miss_df[var].isnull().sum()
isnull_sum(column) == Cardinality({i \in DOMAIN column : column[i] = NA})

\* The most frequent present value alone, whatever ties with it.
mode_first(column) ==
    LET counts == value_counts(column)
        top == {ix \in DOMAIN counts : \A other \in DOMAIN counts : counts[other] <= counts[ix]}
    IN IF top = {} THEN {} ELSE {CHOOSE ix \in top : TRUE}

\* miss_df[var].mode(): every present value of the highest count; none for a
\* column without a present value
mode(column) ==
    LET counts == value_counts(column)
    IN {ix \in DOMAIN counts : \A other \in DOMAIN counts : counts[other] <= counts[ix]}

RECURSIVE miss_loop(_, _, _)
miss_loop(data, variables, done) ==
    IF variables = <<>> THEN [frequent |-> done, raised |-> NoException]
    ELSE LET var == Head(variables)
             n_miss == isnull_sum(data[var])
             value == mode(data[var])
         IN IF n_miss > MissLimit
            THEN IF Cardinality(value) = 1
                 THEN miss_loop(data, Tail(variables),
                                Append(done, [var |-> var, n_miss |-> n_miss,
                                              value |-> value]))
                 ELSE [frequent |-> done, raised |-> [type |-> "ValueError", var |-> var]]
            ELSE miss_loop(data, Tail(variables),
                           Append(done, [var |-> var, n_miss |-> n_miss, value |-> {}]))

categorical_plots_for_miss_and_freq(variables, model) ==
    LET miss_df == copy_deep(df)
        r == IF model_in_tuple(model, "reg", "regression")
             THEN miss_loop(miss_df.data, variables, <<>>)
             ELSE [frequent |-> <<>>, raised |-> NoException]
    IN /\ fn' = "categorical_plots_for_miss_and_freq"
       /\ args' = [variables |-> variables, model |-> model]
       /\ raised' = r.raised
       /\ frequent' = r.frequent
       /\ df' = caller_frame(df, miss_df, miss_df.data)
       /\ UNCHANGED <<outlier_dict, outlier_df, detail, eda_df, rare_passes, transforms,
                      target_plots>>

----------------------------------------------------------------------------
\* Specifications

NumColumns == {"x", "y"}
CatColumns == {"c"}
Thresholds == {1, 2, 20}
RareTols == {0, 20, 25, 100}
Builds == {"nan", "raise"}

\* The numpy build decides the outcome only where a percentile is taken of an
\* empty input.
BuildsFor(frame, variables) ==
    IF \E i \in DOMAIN analysed(frame, variables) :
           notnull_values(frame, analysed(frame, variables)[i]) = <<>>
    THEN Builds ELSE {"nan"}

NoCall ==
    /\ fn = ""
    /\ args = [none |-> TRUE]
    /\ raised = NoException
    /\ outlier_dict = <<>>
    /\ outlier_df = <<>>
    /\ detail = NoDetail
    /\ eda_df = <<>>
    /\ rare_passes = <<>>
    /\ transforms = <<>>
    /\ target_plots = <<>>
    /\ frequent = <<>>

\* The caller is done with what the last call gave it: the functions keep
\* nothing between calls.
Return ==
    /\ fn # ""
    /\ fn' = ""
    /\ args' = [none |-> TRUE]
    /\ raised' = NoException
    /\ outlier_dict' = <<>>
    /\ outlier_df' = <<>>
    /\ detail' = NoDetail
    /\ eda_df' = <<>>
    /\ rare_passes' = <<>>
    /\ transforms' = <<>>
    /\ target_plots' = <<>>
    /\ frequent' = <<>>
    /\ UNCHANGED df

\* Calls on a dataframe of numeric columns.
Init == df \in NumFrames /\ NoCall

Next ==
    \/ /\ fn = ""
       /\ \E variables \in VariablesArgs(NumColumns), tol2 \in Tols2 :
              \E build \in BuildsFor(df, variables) :
                  numerical_check_outliers(variables, tol2, build)
    \/ Return

Spec == Init /\ [][Next]_vars

\* Calls of numerical_variable_detail on a dataframe of one numeric column.
InitDetail == df \in DetailFrames /\ NoCall

NextDetail ==
    \/ /\ fn = ""
       /\ \E threshold \in Thresholds, failing \in Failings :
              numerical_variable_detail("x", threshold, failing)
    \/ Return

SpecDetail == InitDetail /\ [][NextDetail]_vars

\* Calls on a dataframe with a categorical column.
InitCat == df \in CatFrames /\ NoCall

NextCat ==
    \/ /\ fn = ""
       /\ \E variables \in VarLists(CatColumns), add_missing \in BOOLEAN,
             add_rare \in BOOLEAN, rare_tol \in RareTols :
              categorical_plots(variables, add_missing, add_rare, rare_tol)
    \/ /\ fn = ""
       /\ \E variables \in VarLists(CatColumns), model \in Models,
             add_missing \in BOOLEAN :
              categorical_plots_with_target(variables, model, add_missing)
    \/ /\ fn = ""
       /\ \E variables \in VarLists(CatColumns), model \in Models,
             add_missing \in BOOLEAN, rare_v1 \in RareTols, rare_v2 \in RareTols :
              categorical_plots_with_rare_and_target(variables, model, add_missing,
                                                     rare_v1, rare_v2)
    \/ Return

SpecCat == InitCat /\ [][NextCat]_vars

\* Calls of categorical_plots_for_miss_and_freq.
InitMiss == df \in MissFrames /\ NoCall

NextMiss ==
    \/ /\ fn = ""
       /\ \E variables \in VarLists(CatColumns), model \in Models :
              categorical_plots_for_miss_and_freq(variables, model)
    \/ Return

SpecMiss == InitMiss /\ [][NextMiss]_vars

\* Calls of every function on a small dataframe with a categorical column c
\* and a numeric column t.
InitAll == df \in SmallCatFrames /\ NoCall

NextAll ==
    \/ /\ fn = ""
       /\ \E variables \in VariablesArgs({"t"}), tol2 \in Tols2 :
              \E build \in BuildsFor(df, variables) :
                  numerical_check_outliers(variables, tol2, build)
    \/ /\ fn = ""
       /\ \E threshold \in Thresholds, failing \in Failings :
              numerical_variable_detail("t", threshold, failing)
    \/ /\ fn = ""
       /\ \E variables \in VarLists(CatColumns), add_missing \in BOOLEAN,
             add_rare \in BOOLEAN, rare_tol \in RareTols :
              categorical_plots(variables, add_missing, add_rare, rare_tol)
    \/ /\ fn = ""
       /\ \E variables \in VarLists(CatColumns), model \in Models,
             add_missing \in BOOLEAN :
              categorical_plots_with_target(variables, model, add_missing)
    \/ /\ fn = ""
       /\ \E variables \in VarLists(CatColumns), model \in Models,
             add_missing \in BOOLEAN, rare_v1 \in RareTols, rare_v2 \in RareTols :
              categorical_plots_with_rare_and_target(variables, model, add_missing,
                                                     rare_v1, rare_v2)
    \/ /\ fn = ""
       /\ \E variables \in VarLists(CatColumns), model \in Models :
              categorical_plots_for_miss_and_freq(variables, model)
    \/ Return

SpecAll == InitAll /\ [][NextAll]_vars

----------------------------------------------------------------------------
\* Properties of numerical_check_outliers, stated on the caller's dataframe.

Checked == fn = "numerical_check_outliers" /\ raised.type = "none"

\* The rows of a numeric column that hold a value.
Present(column) == {i \in DOMAIN column : ~column[i].nan}

\* The k-th smallest present value (k from 0), by counting.
RankValue(column, k) ==
    CHOOSE v \in {column[i].v : i \in Present(column)} :
        /\ Cardinality({i \in Present(column) : column[i].v < v}) <= k
        /\ k < Cardinality({i \in Present(column) : column[i].v <= v})

\* The q-th quartile (q = 1 or 3) of the present values under linear
\* interpolation, in eighths: at position q(n-1)/4 between two order statistics.
Quartile8(column, q) ==
    LET n == Cardinality(Present(column))
        lo == (q * (n - 1)) \div 4
        r == (q * (n - 1)) % 4
        hi == IF lo + 1 < n THEN lo + 1 ELSE n - 1
    IN 2 * ((4 - r) * RankValue(column, lo) + r * RankValue(column, hi))

\* C1: for every analysed column that has a present value, Q1 and Q3 are the
\* linear-interpolation 25th and 75th percentiles of its present values,
\* IQR = Q3 - Q1, Q1 - lower_bound = tol * IQR = upper_bound - Q3; and for the
\* scenario column [1..9, 1000] with tol 1.5: Q1 = 3.25, Q3 = 7.75,
\* upper_bound = 14.5, one upper outlier, no lower outlier.
C1_Quartiles ==
    Checked =>
        \A k \in DOMAIN outlier_dict :
            LET e == outlier_dict[k]
                column == df.data[e.var]
            IN /\ Present(column) # {} =>
                    /\ e.quartile_1 = F(Quartile8(column, 1))
                    /\ e.quartile_3 = F(Quartile8(column, 3))
                    /\ e.iqr = F(e.quartile_3.v - e.quartile_1.v)
                    /\ ~e.lower_bound.nan /\ ~e.upper_bound.nan
                    /\ 2 * (e.quartile_1.v - e.lower_bound.v) = args.tol2 * e.iqr.v
                    /\ 2 * (e.upper_bound.v - e.quartile_3.v) = args.tol2 * e.iqr.v
               /\ (column = ScenarioColumn /\ args.tol2 = 3) =>
                    /\ e.quartile_1 = F(26) /\ e.quartile_3 = F(62)
                    /\ e.upper_bound = F(116)
                    /\ e.upper_bound_outliers = 1 /\ e.lower_bound_outliers = 0

C1_Witness ==
    /\ Checked /\ df = ScenarioFrame /\ args.tol2 = 3
    /\ \E k \in DOMAIN outlier_dict :
          /\ outlier_dict[k].var = "x"
          /\ outlier_dict[k].upper_bound = F(116)
          /\ outlier_dict[k].upper_bound_outliers = 1

\* C2: the lower outliers of a column are exactly its present values strictly
\* below lower_bound and the upper outliers its present values strictly above
\* upper_bound: a value equal to a bound and a missing value are not counted.
C2_StrictCounts ==
    Checked =>
        \A k \in DOMAIN outlier_dict :
            LET e == outlier_dict[k]
                column == df.data[e.var]
            IN /\ e.lower_bound_outliers =
                    Cardinality({i \in DOMAIN column :
                        /\ ~column[i].nan /\ ~e.lower_bound.nan
                        /\ 8 * column[i].v < e.lower_bound.v})
               /\ e.upper_bound_outliers =
                    Cardinality({i \in DOMAIN column :
                        /\ ~column[i].nan /\ ~e.upper_bound.nan
                        /\ 8 * column[i].v > e.upper_bound.v})

\* A column with a missing value and present values equal to both bounds,
\* IQR > 0, and nothing counted.
C2_Witness ==
    /\ Checked
    /\ \E k \in DOMAIN outlier_dict :
          LET e == outlier_dict[k]
              column == df.data[e.var]
          IN /\ \E i \in DOMAIN column : column[i].nan
             /\ ~e.iqr.nan /\ e.iqr.v > 0
             /\ \E i \in Present(column) : 8 * column[i].v = e.upper_bound.v
             /\ \E i \in Present(column) : 8 * column[i].v = e.lower_bound.v
             /\ e.total_outliers = 0

\* The entry of outlier_dict for a variable.
EntryOf(var) == outlier_dict[CHOOSE k \in DOMAIN outlier_dict : outlier_dict[k].var = var]

\* The present values of a column that lie within the bounds of its entry.
WithinBounds(e) ==
    {i \in Present(df.data[e.var]) :
        /\ ~e.lower_bound.nan /\ ~e.upper_bound.nan
        /\ e.lower_bound.v <= 8 * df.data[e.var][i].v
        /\ 8 * df.data[e.var][i].v <= e.upper_bound.v}

\* C4: for a tolerance > 0, every row of the report satisfies
\* lower + upper + (present values within the bounds) + (missing values)
\* = rows of the dataset, and total_outliers = lower + upper.
C4_RowCount ==
    (Checked /\ args.tol2 > 0) =>
        \A k \in DOMAIN outlier_df :
            LET row == outlier_df[k]
                column == df.data[row.var]
            IN /\ row.lower_bound_outliers + row.upper_bound_outliers
                    + Cardinality(WithinBounds(EntryOf(row.var)))
                    + Cardinality(DOMAIN column \ Present(column)) = len(df)
               /\ row.total_outliers = row.lower_bound_outliers + row.upper_bound_outliers

\* A row with an outlier and values within the bounds.
C4_Witness ==
    /\ Checked /\ args.tol2 > 0
    /\ \E k \in DOMAIN outlier_df :
          /\ outlier_df[k].total_outliers > 0
          /\ WithinBounds(EntryOf(outlier_df[k].var)) # {}

C6_Monotone ==
    (Checked /\ args.tol2 > 0) =>
        \A k \in DOMAIN outlier_dict : \A t2 \in {t \in Tols2 : t >= args.tol2} :
            LET e1 == outlier_dict[k]
                e2 == outlier_entry(df, e1.var, t2)
            IN /\ e2.total_outliers <= e1.total_outliers
               /\ Present(df.data[e1.var]) # {} =>
                    /\ e1.upper_bound.v <= e2.upper_bound.v
                    /\ e1.lower_bound.v >= e2.lower_bound.v

\* A column whose outlier count is positive at the call's tolerance and
\* smaller at a larger one.
C6_Witness ==
    /\ Checked /\ args.tol2 > 0
    /\ \E k \in DOMAIN outlier_dict : \E t2 \in {t \in Tols2 : t > args.tol2} :
          /\ outlier_dict[k].total_outliers > 0
          /\ outlier_entry(df, outlier_dict[k].var, t2).total_outliers
                < outlier_dict[k].total_outliers
          /\ outlier_entry(df, outlier_dict[k].var, t2).upper_bound.v
                > outlier_dict[k].upper_bound.v

\* The position of a variable's first occurrence in the analysed list.
FirstIndex(var) ==
    CHOOSE i \in DOMAIN analysed(df, args.variables) :
        /\ analysed(df, args.variables)[i] = var
        /\ \A j \in 1..(i - 1) : analysed(df, args.variables)[j] # var

OneRowPerColumn ==
    /\ {outlier_df[k].var : k \in DOMAIN outlier_df}
          = {analysed(df, args.variables)[i] :
                i \in DOMAIN analysed(df, args.variables)}
    /\ \A i, j \in DOMAIN outlier_df : i # j => outlier_df[i].var # outlier_df[j].var

Descending ==
    \A i, j \in DOMAIN outlier_df :
        i < j => outlier_df[i].total_outliers >= outlier_df[j].total_outliers

\* C7 as stated: one row per analysed column, by total_outliers descending,
\* rows with equal total_outliers in the order of the input list.
C7_Original ==
    Checked =>
        /\ OneRowPerColumn
        /\ Descending
        /\ \A i, j \in DOMAIN outlier_df :
              (i < j /\ outlier_df[i].total_outliers = outlier_df[j].total_outliers)
                  => FirstIndex(outlier_df[i].var) < FirstIndex(outlier_df[j].var)

\* C7, amended: one row per distinct analysed column, ordered by
\* total_outliers descending; the order of rows with equal total_outliers is
\* not determined (the sort is not a stable one).
C7_Sorted == Checked => (OneRowPerColumn /\ Descending)

\* The sort moved a column with more outliers ahead of one listed before it.
C7_Witness ==
    /\ Checked /\ Len(outlier_df) = 2
    /\ outlier_df[1].total_outliers > outlier_df[2].total_outliers
    /\ FirstIndex(outlier_df[1].var) > FirstIndex(outlier_df[2].var)

\* The analysed variables without a present value, and those with one.
EmptyVars ==
    {v \in {analysed(df, args.variables)[i] :
                i \in DOMAIN analysed(df, args.variables)} :
        Present(df.data[v]) = {}}
ValidVars ==
    {v \in {analysed(df, args.variables)[i] :
                i \in DOMAIN analysed(df, args.variables)} :
        Present(df.data[v]) # {}}

\* C8: a call with several columns of which one has no present value gives an
\* error that names that column, still returns the reports of the valid
\* columns, and gives the all-missing column no report.
C8_Claim ==
    (fn = "numerical_check_outliers" /\ EmptyVars # {} /\ ValidVars # {}) =>
        /\ raised.var \in EmptyVars
        /\ \A v \in ValidVars : \E k \in DOMAIN outlier_df : outlier_df[k].var = v
        /\ \A v \in EmptyVars : \A k \in DOMAIN outlier_df : outlier_df[k].var # v

\* C9 as stated: a call with tol <= 0 is rejected with an error and returns no
\* report.
C9_Original ==
    (fn = "numerical_check_outliers" /\ args.tol2 <= 0) =>
        (raised.type # "none" /\ outlier_df = <<>>)

\* C9, amended: the tolerance is not validated.  A call with tol <= 0 on
\* columns that each have a present value returns a report, computed with
\* lower_bound = Q1 - tol*IQR >= Q1 and upper_bound = Q3 + tol*IQR <= Q3.
C9_Accepted ==
    (fn = "numerical_check_outliers" /\ args.tol2 <= 0 /\ EmptyVars = {}) =>
        /\ raised.type = "none"
        /\ OneRowPerColumn
        /\ \A k \in DOMAIN outlier_dict :
              LET e == outlier_dict[k]
              IN /\ 2 * (e.quartile_1.v - e.lower_bound.v) = args.tol2 * e.iqr.v
                 /\ 2 * (e.upper_bound.v - e.quartile_3.v) = args.tol2 * e.iqr.v
                 /\ e.lower_bound.v >= e.quartile_1.v
                 /\ e.upper_bound.v <= e.quartile_3.v

\* A report under a negative tolerance that counts a value on both sides.
C9_Witness ==
    /\ Checked /\ args.tol2 < 0
    /\ \E k \in DOMAIN outlier_df : outlier_df[k].total_outliers > len(df)

----------------------------------------------------------------------------
\* Quartiles over the present values only, at both sites

\* C3: both numerical_check_outliers and the 'Outliers (using IQR)' step of
\* numerical_variable_detail take the quartiles of the present values only, so
\* missing values neither change nor invalidate Q1, Q3 and the outlier counts.
C3_Claim ==
    /\ Checked =>
          \A k \in DOMAIN outlier_dict :
              Present(df.data[outlier_dict[k].var]) # {} =>
                  /\ outlier_dict[k].quartile_1 = F(Quartile8(df.data[outlier_dict[k].var], 1))
                  /\ outlier_dict[k].quartile_3 = F(Quartile8(df.data[outlier_dict[k].var], 3))
    /\ (fn = "numerical_variable_detail" /\ detail.reached) =>
          LET column == df.data[args.variable]
              q1 == Quartile8(column, 1)
              q3 == Quartile8(column, 3)
          IN /\ detail.quartile_1 = F(q1)
             /\ detail.quartile_3 = F(q3)
             /\ detail.right_end_outliers =
                   Cardinality({i \in Present(column) :
                       16 * column[i].v > 2 * q3 + 3 * (q3 - q1)})
             /\ detail.left_end_outliers =
                   Cardinality({i \in Present(column) :
                       16 * column[i].v < 2 * q1 - 3 * (q3 - q1)})

----------------------------------------------------------------------------
\* Rare-category collapsing, stated on the caller's column

\* The column a collapse reads: the caller's, with NA relabelled when
\* add_missing is set.
InputColumn(var) ==
    [i \in DOMAIN df.data[var] |->
        IF args.add_missing /\ df.data[var][i] = NA THEN "Missing" ELSE df.data[var][i]]

\* 100 * share of a label > threshold, with share = count / total rows
AboveThreshold(column, label, threshold) ==
    100 * Cardinality({j \in DOMAIN column : column[j] = label}) > threshold * Len(column)

\* What collapsing gives for the labelled entries of a column.
CollapsedAs(out, column, threshold) ==
    \A i \in DOMAIN column :
        column[i] # NA =>
            out[i] = IF AboveThreshold(column, column[i], threshold)
                     THEN column[i] ELSE "Rare"

Untouched(out, column, threshold) ==
    /\ \A i \in DOMAIN column : column[i] = NA => out[i] = NA
    /\ (\A i \in DOMAIN column :
            column[i] # NA => AboveThreshold(column, column[i], threshold))
          => out = column

\* C11: with add_missing = False the collapse leaves every missing entry
\* missing and never relabels it 'Rare', and when no category is at or below
\* the threshold the output equals the input.
C11_Claim ==
    /\ (fn = "categorical_plots" /\ args.add_rare /\ ~args.add_missing) =>
          \A i \in DOMAIN args.variables :
              Untouched(eda_df[args.variables[i]], df.data[args.variables[i]],
                        args.rare_tol)
    /\ (fn = "categorical_plots_with_rare_and_target" /\ ~args.add_missing) =>
          \A k \in DOMAIN rare_passes :
              /\ args.rare_v1 # 0 =>
                    Untouched(rare_passes[k].rare_v1_df, df.data[rare_passes[k].var],
                              args.rare_v1)
              /\ args.rare_v2 # 0 =>
                    Untouched(rare_passes[k].rare_v2_df, df.data[rare_passes[k].var],
                              args.rare_v2)

\* The collapse as the claims define it: an entry is kept exactly when the
\* share of its label, count / total rows, is above threshold / 100.
Collapse(column, threshold) ==
    [i \in DOMAIN column |->
        IF AboveThreshold(column, column[i], threshold) THEN column[i] ELSE "Rare"]

\* C12: the collapse is idempotent: applied to its own output with the same
\* threshold and the same total row count it gives that output again.
C12_Idempotent ==
    /\ (fn = "categorical_plots" /\ args.add_rare) =>
          \A i \in DOMAIN args.variables :
              Collapse(eda_df[args.variables[i]], args.rare_tol)
                  = eda_df[args.variables[i]]
    /\ fn = "categorical_plots_with_rare_and_target" =>
          \A k \in DOMAIN rare_passes :
              /\ args.rare_v1 # 0 =>
                    Collapse(rare_passes[k].rare_v1_df, args.rare_v1)
                        = rare_passes[k].rare_v1_df
              /\ args.rare_v2 # 0 =>
                    Collapse(rare_passes[k].rare_v2_df, args.rare_v2)
                        = rare_passes[k].rare_v2_df

\* A call that names the column twice, so that the second iteration collapses
\* the output of the first: a category was collapsed, another was kept, and
\* the share of 'Rare' in the output is itself not above the threshold.
C12_Witness ==
    /\ fn = "categorical_plots" /\ args.add_rare /\ args.variables = <<"c", "c">>
    /\ ~AboveThreshold(eda_df["c"], "Rare", args.rare_tol)
    /\ \E i, j \in DOMAIN eda_df["c"] :
          /\ df.data["c"][i] \notin {NA, "Rare"} /\ eda_df["c"][i] = "Rare"
          /\ eda_df["c"][j] # "Rare"

----------------------------------------------------------------------------
\* Properties of categorical_plots_for_miss_and_freq.

\* The present values of the highest count.
TopLabels(column) ==
    LET labels == {column[i] : i \in DOMAIN column} \ {NA}
        Count(l) == Cardinality({i \in DOMAIN column : column[i] = l})
    IN {l \in labels : \A m \in labels : Count(m) <= Count(l)}

MissingCount(column) == Cardinality({i \in DOMAIN column : column[i] = NA})

\* The variables the loop came to: those before the one that raised, and it.
Processed == 1..(IF raised.type = "none" THEN Len(args.variables) ELSE Len(frequent) + 1)

Regression == fn = "categorical_plots_for_miss_and_freq" /\ args.model \in {"reg", "regression"}

----------------------------------------------------------------------------
\* Properties of all the functions.

\* C14: no function changes the caller's dataframe: after any sequence of
\* calls it has the columns, rows and values it had.
C14_NoMutation == [][df' = df]_vars

\* A call that relabelled entries of its working frame while the caller's
\* column still has its missing entry.
C14_Witness ==
    /\ fn \in {"categorical_plots", "categorical_plots_with_target",
                "categorical_plots_with_rare_and_target"}
    /\ eda_df["c"] # df.data["c"]
    /\ \E i \in DOMAIN df.data["c"] : df.data["c"][i] = NA /\ eda_df["c"][i] # NA

\* What model = 'clf' selects for a plot of mean target per category.
EventRatePlot == [scaled |-> TRUE, ylabel |-> "Perc of Events within Category"]

\* What model = 'reg' selects.
MeanTargetPlot == [scaled |-> FALSE, ylabel |-> "Mean Target Value"]

\* C15: at every branch on the model argument in categorical_plots_with_target
\* and categorical_plots_with_rare_and_target, 'classification' selects what
\* 'clf' does (mean target times 100, event-rate graph and labels) and
\* 'regression' what 'reg' does (mean-target labels).
C15_Claim ==
    /\ fn = "categorical_plots_with_target" =>
          \A k \in DOMAIN target_plots :
              /\ args.model \in {"clf", "classification"} =>
                    /\ target_plots[k].scaled
                    /\ target_plots[k].event_rate_graph
                    /\ target_plots[k].ylabel = EventRatePlot.ylabel
              /\ args.model \in {"reg", "regression"} =>
                    /\ ~target_plots[k].scaled
                    /\ ~target_plots[k].event_rate_graph
                    /\ target_plots[k].ylabel = MeanTargetPlot.ylabel
    /\ fn = "categorical_plots_with_rare_and_target" =>
          \A k \in DOMAIN rare_passes :
              LET expected == IF args.model \in {"clf", "classification"}
                              THEN EventRatePlot ELSE MeanTargetPlot
              IN /\ rare_passes[k].as_is_plot = expected
                 /\ args.rare_v1 # 0 => rare_passes[k].rare_v1_plot = expected
                 /\ args.rare_v2 # 0 => rare_passes[k].rare_v2_plot = expected

----------------------------------------------------------------------------
\* Properties of the transformations of numerical_variable_detail.

\* C16: when the variable has at least threshold distinct values, the six
\* transformations are attempted in the order log, exp, square, sqrt, Box-Cox,
\* Yeo-Johnson whichever of them fail, and the function returns normally.
C16_AllAttempted ==
    (fn = "numerical_variable_detail"
        /\ nunique(df.data[args.variable]) >= args.threshold) =>
        /\ raised.type = "none"
        /\ [k \in DOMAIN transforms |-> transforms[k].name]
              = <<"log", "exp", "square", "sqrt", "boxcox", "yeojohnson">>

\* A call in which the log and the Box-Cox transformations failed and the
\* Yeo-Johnson transformation after them was computed.
C16_Witness ==
    /\ fn = "numerical_variable_detail"
    /\ Len(transforms) = 6
    /\ transforms[1].failed /\ transforms[5].failed /\ ~transforms[6].failed

\* C17: transformations 2 to 6 are given the series in which the zeros were
\* replaced by 1 for the log transformation, and the caller's column keeps
\* its zeros.
C17_ZerosReplaced ==
    [][(fn' = "numerical_variable_detail" /\ detail'.reached) =>
          /\ df' = df
          /\ \A k \in 2..6 :
                /\ k \in DOMAIN transforms'
                /\ transforms'[k].input =
                      [i \in DOMAIN df.data[args'.variable] |->
                          IF df.data[args'.variable][i] = F(0)
                          THEN F(1) ELSE df.data[args'.variable][i]]]_vars

\* A call on a column with a zero: the exponential transformation was given 1
\* in its place and the caller's column still has the zero.
C17_Witness ==
    /\ fn = "numerical_variable_detail" /\ Len(transforms) = 6
    /\ \E i \in DOMAIN df.data[args.variable] :
          /\ df.data[args.variable][i] = F(0)
          /\ transforms[2].input[i] = F(1)

====
